---- MODULE Spec2Model ----
(***************************************************************************)
(* Live-stream point cloud viewer (src/components/PCV.vue), specification  *)
(* Spec; the two frame decoders (parsePointCloudData of PCV.vue and the     *)
(* worker of src/assets/js/pointCloudWorker.js) applied to one decompressed *)
(* buffer, specification SpecCodec; the archive viewer in its two variants  *)
(* (src/components/PointCloudViewer.vue, reading with h5wasm, and the       *)
(* component in src/assets/js/pointCloudWorker.js lines 52-399, reading     *)
(* with jsfive), specification SpecArchive.  Each specification holds the   *)
(* other components' variables at their initial values.                     *)
(*                                                                         *)
(* The viewer runs on the JavaScript event loop: every callback runs to    *)
(* completion before the next one starts.  The variable pc records where   *)
(* the message callback is: "idle" (no callback running), "parse" (inside  *)
(* parsePointCloudData) or "update" (inside updatePointCloud).  No other   *)
(* callback can start while pc # "idle".                                   *)
(*                                                                         *)
(* Float32 positions are carried as their IEEE-754 bit pattern (the        *)
(* little-endian u32 of the four wire bytes); a Float32Array-to-           *)
(* Float32Array copy never changes it.  A normalised colour is the exact   *)
(* quotient c/255, carried as the pair [num |-> c, den |-> 255].           *)
(***************************************************************************)
EXTENDS Integers, Sequences, FiniteSets, TLC

\* Largest pointCount of a well-formed frame offered to the viewer.
MaxPoints == 2
\* Largest number of frames in an archive.
MaxFrames == 3
\* Number of calls of animate followed in a playback.
MaxTicks == 4
\* The distinct frame contents offered per (pointCount, hasColors).
Seeds == {1, 2}

VARIABLES
  ws,            \* websocket: "connecting", "open", "closing" (close() on an
                 \* open socket), "aborted" (close() before it opened), "closed"
  loading,       \* loading.value
  error,         \* error.value (the ref shown to the user), NoError = null
  isActive,
  isProcessing,
  maxPoints,
  isFirstUpdate,
  positions,     \* the Float32Array `positions`, NoArray = undefined
  colors,        \* the Float32Array `colors`, NoArray = undefined
  attrPosition,  \* id of the array bound as geometry.attributes.position, 0 = none
  attrColor,     \* id of the array bound as geometry.attributes.color, 0 = none
  vertexColors,  \* material.vertexColors
  drawRange,     \* geometry.drawRange.count as set by setDrawRange
  fitCount,      \* number of calls of fitCameraToObject
  nextId,        \* identity given to the next `new Float32Array`
  pc,            \* position of the message callback
  data,          \* the message being parsed (pc = "parse")
  frame,         \* the arguments of the current / last updatePointCloud call
  outcome,       \* how the last message callback ended
  seen,          \* largest numPoints passed to updatePointCloud so far
  updateCalled   \* updatePointCloud has been called in this session

liveVars == <<ws, loading, error, isActive, isProcessing, maxPoints,
              isFirstUpdate, positions, colors, attrPosition, attrColor,
              vertexColors, drawRange, fitCount, nextId, pc, data, frame,
              outcome, seen, updateCalled>>

\* The decoders applied to one message
VARIABLES
  cInput,        \* the message: what inflate does, and the decompressed buffer
                 \* as the first `len` bytes of a wire frame plus a trailing byte
  cInline,       \* what parsePointCloudData's try block made of it
  cWorker        \* what the worker posted back for it

codecVars == <<cInput, cInline, cWorker>>

\* The archive viewer.  Times are in thirds of a millisecond, so that the
\* frame duration 1000 / 30 ms is the integer 100.
VARIABLES
  aVariant,          \* "h5wasm" (PointCloudViewer.vue) or "jsfive"
  aArchive,          \* what the fetch, the container and WebGL will answer
  aPc,               \* where fetchAndProcessH5File is suspended, or "done"
  aError,            \* error.value
  aLoading,          \* loading.value
  aActive,           \* isActive
  aThree,            \* outcome of initThree, "none" before it ran
  frameNames,        \* frame_names
  aNext,             \* index in frame_names of the frame being awaited
  frames,            \* frames, each point cloud carried as its frame name
  currentFrameIndex,
  lastFrameTime,     \* 0 initially, Undefined after the untimed first call
  aSched,            \* pending callback: "none", "raf" or "timer"
  now,               \* the clock
  aShown,            \* index last rendered, NotShown before the first render
  aTicks,            \* number of calls of animate
  aAdvances,         \* number of times animate advanced the index
  aLastAdvance,      \* time of the latest advance; before the first advance
                     \* the time of the first timestamped tick; else Undefined
  aScene,            \* scene: "none" (undefined), "live" or "disposed"
  aRenderer,         \* renderer: "none" (undefined), "live" or "disposed"
  aDisposed          \* the frames whose geometry and material were disposed

archiveVars == <<aVariant, aArchive, aPc, aError, aLoading, aActive, aThree,
                 frameNames, aNext, frames, currentFrameIndex, lastFrameTime,
                 aSched, now, aShown, aTicks, aAdvances, aLastAdvance,
                 aScene, aRenderer, aDisposed>>

vars == <<liveVars, codecVars, archiveVars>>

\* the variables the live-stream viewer does not touch
restVars == <<codecVars, archiveVars>>

----------------------------------------------------------------------------
\* Typed arrays

NoArray == [id |-> 0, data |-> <<>>]

\* new Float32Array(len): zero filled, a fresh identity
NewPositions(id, len) == [id |-> id, data |-> [i \in 1..len |-> 0]]

ZeroColor == [num |-> 0, den |-> 1]

NewColors(id, len) == [id |-> id, data |-> [i \in 1..len |-> ZeroColor]]

----------------------------------------------------------------------------
\* DataView reads on the decompressed buffer; RangeError when out of bounds

RangeError == -1

\* an unchecked byte read: 0 past the end instead of a RangeError
GetUint8Unchecked(buf, offset) ==
  IF offset + 1 <= Len(buf) THEN buf[offset + 1] ELSE 0

GetUint8(buf, offset) ==
  IF offset + 1 <= Len(buf) THEN buf[offset + 1] ELSE RangeError

GetUint32(buf, offset) ==
  IF offset + 4 <= Len(buf)
  THEN buf[offset + 1] + 256 * buf[offset + 2] + 65536 * buf[offset + 3]
       + 16777216 * buf[offset + 4]
  ELSE RangeError

\* a read without the littleEndian flag
GetFloat32BigEndian(buf, offset) ==
  IF offset + 4 <= Len(buf)
  THEN 16777216 * buf[offset + 1] + 65536 * buf[offset + 2] + 256 * buf[offset + 3]
       + buf[offset + 4]
  ELSE RangeError

GetFloat32(buf, offset) ==
  IF offset + 4 <= Len(buf)
  THEN buf[offset + 1] + 256 * buf[offset + 2] + 65536 * buf[offset + 3]
       + 16777216 * buf[offset + 4]
  ELSE RangeError

----------------------------------------------------------------------------
\* Messages handed to websocket.onmessage.  A message carries what
\* pako.inflate does with it: it returns the raw bytes, throws an Error
\* object, or throws a primitive string (pako throws its zlib message string).

RECURSIVE Concat(_)
Concat(ss) == IF ss = <<>> THEN <<>> ELSE Head(ss) \o Concat(Tail(ss))

\* wire bytes of position element i (0-based) of the frame content `seed`
PositionBytes(seed, i) == <<16 * seed + i, i + 1, seed, 63>>

\* wire byte of colour element j (0-based) of the frame content `seed`
ColorByte(seed, j) == (100 * seed + 10 * j + 5) % 256

\* the producer's layout: u32 pointCount, u8 hasColors, f32 x 3n, u8 x 3n
WireFrame(n, hasColors, seed) ==
  <<n, 0, 0, 0, hasColors>>
  \o Concat([i \in 1..(3 * n) |-> PositionBytes(seed, i - 1)])
  \o (IF hasColors # 0 THEN [j \in 1..(3 * n) |-> ColorByte(seed, j - 1)] ELSE <<>>)

WellFormedRaw ==
  {WireFrame(n, h, s) : n \in 0..MaxPoints, h \in {0, 1}, s \in Seeds}

\* a well-formed frame that lost its last byte, and a cut header
TruncatedRaw ==
  {SubSeq(WireFrame(n, h, 1), 1, Len(WireFrame(n, h, 1)) - 1) :
     n \in 1..MaxPoints, h \in {0, 1}} \cup {<<1, 0, 0>>}

Messages ==
  {[inflate |-> "ok", raw |-> r] : r \in WellFormedRaw \cup TruncatedRaw}
  \cup {[inflate |-> k, raw |-> <<>>] : k \in {"object", "primitive"}}

NoMessage == [inflate |-> "none", raw |-> <<>>]

----------------------------------------------------------------------------
\* parsePointCloudData, lines 148-183: the try block up to the call of
\* updatePointCloud.  thrown = "none": the frame was decoded; otherwise the
\* kind of value that was thrown.

NoFrame ==
  [numPoints |-> 0, positionsArray |-> <<>>, colorsArray |-> <<>>,
   colorsNull |-> TRUE]

Inflate(m) == IF m.inflate = "ok" THEN "none" ELSE m.inflate

ReadPositions(buf, numPoints) ==
  [i \in 1..(numPoints * 3) |-> GetFloat32(buf, 5 + 4 * (i - 1))]

ReadColors(buf, numPoints) ==
  [i \in 1..(numPoints * 3) |-> GetUint8(buf, 5 + 4 * numPoints * 3 + (i - 1))]

\* a decoder that hands over what it could read: a frame whose colours are
\* cut short is delivered without colours
DecodePartial(buf) ==
  LET numPoints == GetUint32(buf, 0)
      hasColors == GetUint8(buf, 4)
      positionsArray == ReadPositions(buf, numPoints)
      colorsArray == ReadColors(buf, numPoints)
      Failed == [thrown |-> "object", frame |-> NoFrame]
      colorsRead == hasColors # 0
                    /\ \A i \in DOMAIN colorsArray : colorsArray[i] # RangeError
  IN  IF numPoints = RangeError \/ hasColors = RangeError THEN Failed
      ELSE IF \E i \in DOMAIN positionsArray : positionsArray[i] = RangeError
      THEN Failed
      ELSE [thrown |-> "none",
            frame |-> [numPoints |-> numPoints,
                       positionsArray |-> positionsArray,
                       colorsArray |-> IF colorsRead THEN colorsArray ELSE <<>>,
                       colorsNull |-> ~colorsRead]]

Decode(buf) ==
  LET numPoints == GetUint32(buf, 0)
      hasColors == GetUint8(buf, 4)
      positionsArray == ReadPositions(buf, numPoints)
      colorsArray == ReadColors(buf, numPoints)
      Failed == [thrown |-> "object", frame |-> NoFrame]
  IN  IF numPoints = RangeError \/ hasColors = RangeError THEN Failed
      ELSE IF \E i \in DOMAIN positionsArray : positionsArray[i] = RangeError
      THEN Failed
      ELSE IF hasColors # 0
              /\ \E i \in DOMAIN colorsArray : colorsArray[i] = RangeError
      THEN Failed
      ELSE [thrown |-> "none",
            frame |-> [numPoints |-> numPoints,
                       positionsArray |-> positionsArray,
                       colorsArray |-> IF hasColors # 0 THEN colorsArray ELSE <<>>,
                       colorsNull |-> (hasColors = 0)]]

Parse(m) ==
  IF Inflate(m) # "none"
  THEN [thrown |-> Inflate(m), frame |-> NoFrame]
  ELSE Decode(m.raw)

----------------------------------------------------------------------------
\* updatePointCloud, lines 191-248

\* reallocating to the size of every frame that differs from the capacity
NeedsGrowOnAnyChange(capacity, numPoints) == capacity # numPoints

\* reallocating also for a frame that exactly fits
NeedsGrowWhenEqual(capacity, numPoints) == capacity <= numPoints

\* line 193: if (maxPoints < numPoints)
NeedsGrow(capacity, numPoints) == capacity < numPoints

\* growing by a factor instead of to the frame's size
GrownCapacityDoubled(capacity, numPoints) == 2 * numPoints

\* line 194: maxPoints = numPoints
GrownCapacity(capacity, numPoints) == numPoints

\* line 219: positions.set(positionsArray.subarray(0, numPoints * 3))
\* TypedArray.set throws a RangeError when the source does not fit.
Subarray(arr, begin, end) ==
  SubSeq(arr, begin + 1, IF end < Len(arr) THEN end ELSE Len(arr))

SetFits(target, source) == Len(source) <= Len(target)

\* a copy that stops one element short
SetStopsShort(target, source) ==
  [i \in 1..Len(target) |-> IF i < Len(source) THEN source[i] ELSE target[i]]

\* a copy that clears the storage behind the copied elements
SetClearsRest(target, source) ==
  [i \in 1..Len(target) |-> IF i <= Len(source) THEN source[i] ELSE 0]

Set(target, source) ==
  [i \in 1..Len(target) |-> IF i <= Len(source) THEN source[i] ELSE target[i]]

\* line 225: colors[i] = colorsArray[i] / 255.0
Normalize(c) == [num |-> c, den |-> 255]

\* lines 224-226: a write past the end of a typed array is ignored
WriteColors(target, colorsArray, numPoints) ==
  [i \in 1..Len(target) |->
     IF i <= numPoints * 3 THEN Normalize(colorsArray[i]) ELSE target[i]]

Max(a, b) == IF a >= b THEN a ELSE b

----------------------------------------------------------------------------
\* The worker decoder, pointCloudWorker.js lines 6-50

\* line 35: const colorValue = dataView.getUint8(offset)
WorkerColorValues(buf, numPoints) ==
  [i \in 1..(numPoints * 3) |-> GetUint8(buf, 5 + 4 * numPoints * 3 + (i - 1))]

\* line 36: colors[i] = colorValue / 255.0, the worker normalises as it reads
WorkerReadColors(buf, numPoints) ==
  [i \in 1..(numPoints * 3) |-> Normalize(WorkerColorValues(buf, numPoints)[i])]

\* lines 42-45: postMessage(..., [positions.buffer, colors ? colors.buffer : null])
\* A null in the transfer list makes postMessage throw a TypeError.
TransferListAccepted(colorsNull) == ~colorsNull

NoWorkerFrame ==
  [numPoints |-> 0, positions |-> <<>>, colors |-> <<>>, colorsNull |-> TRUE]

\* line 48: postMessage({ error: error.message }); a thrown primitive has no
\* message property
WorkerError(thrown) ==
  [error |-> IF thrown = "object" THEN "message" ELSE "undefined",
   frame |-> NoWorkerFrame]

\* lines 8-49: what self.onmessage posts back
WorkerOnMessage(m) ==
  LET buf == m.raw
      numPoints == GetUint32(buf, 0)
      hasColors == GetUint8(buf, 4)
      positionsArray == ReadPositions(buf, numPoints)
      colorValues == WorkerColorValues(buf, numPoints)
      colorsArray == WorkerReadColors(buf, numPoints)
  IN  IF Inflate(m) # "none" THEN WorkerError(Inflate(m))
      ELSE IF numPoints = RangeError \/ hasColors = RangeError
      THEN WorkerError("object")
      ELSE IF \E i \in DOMAIN positionsArray : positionsArray[i] = RangeError
      THEN WorkerError("object")
      ELSE IF hasColors # 0
              /\ \E i \in DOMAIN colorValues : colorValues[i] = RangeError
      THEN WorkerError("object")
      ELSE IF ~TransferListAccepted(hasColors = 0)
      THEN WorkerError("object")
      ELSE [error |-> "none",
            frame |-> [numPoints |-> numPoints,
                       positions |-> positionsArray,
                       colors |-> IF hasColors # 0 THEN colorsArray ELSE <<>>,
                       colorsNull |-> (hasColors = 0)]]

----------------------------------------------------------------------------
\* Inputs of the decoders: every prefix of every wire frame followed by one
\* trailing byte, with hasColors bytes 0, 1 and 2, and the two ways inflate
\* fails.

TrailingByte == <<170>>

CodecRaw(n, h, seed, len) == SubSeq(WireFrame(n, h, seed) \o TrailingByte, 1, len)

CodecInputs ==
  UNION {{[inflate |-> "ok", n |-> n, h |-> h, seed |-> seed, len |-> len,
           raw |-> CodecRaw(n, h, seed, len)] :
            len \in 0..(Len(WireFrame(n, h, seed)) + 1)} :
         n \in 0..MaxPoints, h \in {0, 1, 2}, seed \in Seeds}
  \cup {[inflate |-> k, n |-> 0, h |-> 0, seed |-> 1, len |-> 0, raw |-> <<>>] :
          k \in {"object", "primitive"}}

NoInput == [inflate |-> "none", n |-> 0, h |-> 0, seed |-> 1, len |-> 0, raw |-> <<>>]

PendingInline == [thrown |-> "pending", frame |-> NoFrame]

PendingWorker == [error |-> "pending", frame |-> NoWorkerFrame]

CodecIdle ==
  /\ cInput = NoInput
  /\ cInline = PendingInline
  /\ cWorker = PendingWorker

----------------------------------------------------------------------------
\* error.value of a viewer that shows no error
NoError == "null"

----------------------------------------------------------------------------
\* The archive viewer: frame names and their order

\* frame names as sequences of characters
NamePool == {<<"f", "1">>, <<"f", "2">>, <<"f", "1", "0">>, <<"f", "0", "2">>}

IsDigit(c) == c \in {"0", "1", "2", "3", "4", "5", "6", "7", "8", "9"}

DigitValue(c) ==
  CASE c = "0" -> 0 [] c = "1" -> 1 [] c = "2" -> 2 [] c = "3" -> 3
    [] c = "4" -> 4 [] c = "5" -> 5 [] c = "6" -> 6 [] c = "7" -> 7
    [] c = "8" -> 8 [] c = "9" -> 9

Front(q) == SubSeq(q, 1, Len(q) - 1)

Last(q) == q[Len(q)]

\* a.match(/\d+/)[0]: the first maximal run of digits
RECURSIVE DropNonDigits(_)
DropNonDigits(name) ==
  IF name = <<>> \/ IsDigit(Head(name)) THEN name ELSE DropNonDigits(Tail(name))

RECURSIVE TakeDigits(_)
TakeDigits(name) ==
  IF name = <<>> \/ ~IsDigit(Head(name)) THEN <<>>
  ELSE <<Head(name)>> \o TakeDigits(Tail(name))

MatchDigits(name) == TakeDigits(DropNonDigits(name))

\* parseInt of a run of digits
RECURSIVE ParseInt(_)
ParseInt(digits) ==
  IF digits = <<>> THEN 0
  ELSE 10 * ParseInt(Front(digits)) + DigitValue(Last(digits))

\* PointCloudViewer.vue lines 102-103
FrameNumber(name) == ParseInt(MatchDigits(name))

\* PointCloudViewer.vue lines 101-105: frame_names.sort((a, b) => aNum - bNum),
\* a stable sort
RECURSIVE InsertByNumber(_, _)
InsertByNumber(sorted, name) ==
  IF sorted = <<>> THEN <<name>>
  ELSE IF FrameNumber(Last(sorted)) - FrameNumber(name) <= 0
  THEN Append(sorted, name)
  ELSE Append(InsertByNumber(Front(sorted), name), Last(sorted))

RECURSIVE SortByNumber(_)
SortByNumber(names) ==
  IF names = <<>> THEN <<>>
  ELSE InsertByNumber(SortByNumber(Front(names)), Last(names))

\* PointCloudViewer.vue lines 98-105 sort the keys; pointCloudWorker.js
\* line 144 takes them as the container gives them
FrameNamesOf(variant, keys) ==
  IF variant = "h5wasm" THEN SortByNumber(keys) ELSE keys

----------------------------------------------------------------------------
\* The archive viewer: animate

\* frameDuration = 1000 / 30, PointCloudViewer.vue line 32
FrameDuration == 100

\* setTimeout(..., 1000), pointCloudWorker.js line 295
TimerDelay == 3000

\* gaps between two animation frame callbacks
TickGaps == {50, 250}

\* the value of `time` when animate is called without an argument
Undefined == -1

NotShown == -1

Falsy(x) == x = 0 \/ x = Undefined

\* an index that runs past the last frame
AdvanceIndexUnwrapped(index, length) == index + 1

\* (currentFrameIndex + 1) % frames.length
AdvanceIndex(index, length) == (index + 1) % length

\* animate that tolerates a missing scene or missing controls
AnimateThrowsNever(three) == FALSE

\* scene.clear() throws when initThree left scene undefined,
\* controls.update() when it left controls undefined
AnimateThrows(three) == three # "ok"

\* PointCloudViewer.vue lines 238-266, called with isActive true
AnimateH5wasm(time, index, last, length, three) ==
  LET last1 == IF Falsy(last) THEN time ELSE last
      advance == time # Undefined /\ last1 # Undefined
                 /\ time - last1 >= FrameDuration
      index1 == IF advance THEN AdvanceIndex(index, length) ELSE index
      last2 == IF advance THEN time ELSE last1
      threw == AnimateThrows(three)
  IN  [index |-> index1, last |-> last2, advanced |-> advance, threw |-> threw,
       shown |-> IF threw THEN NotShown ELSE index1,
       sched |-> IF threw THEN "none" ELSE "raf",
       ref |-> last2]

\* pointCloudWorker.js lines 272-296, called with isActive true
AnimateJsfive(time, index, last, length, three) ==
  LET threw == AnimateThrows(three)
  IN  [index |-> IF threw THEN index ELSE AdvanceIndex(index, length),
       last |-> last, advanced |-> ~threw, threw |-> threw,
       shown |-> IF threw THEN NotShown ELSE index,
       sched |-> IF threw THEN "none" ELSE "timer",
       ref |-> time]

Animate(variant, time, index, last, length, three) ==
  IF variant = "h5wasm" THEN AnimateH5wasm(time, index, last, length, three)
  ELSE AnimateJsfive(time, index, last, length, three)

----------------------------------------------------------------------------
\* The archive viewer: inputs and initial state

Injective(q) == \A i, j \in DOMAIN q : q[i] = q[j] => i = j

Range(q) == {q[i] : i \in DOMAIN q}

KeySeqs ==
  {q \in UNION {[1..k -> NamePool] : k \in 0..MaxFrames} : Injective(q)}

\* fetch: "ok", "http" (status not 2xx) or "network" (fetch rejects);
\* group: the container has a 'frames' group; keys: its names in container
\* order; invalid: the names whose dataset is not a non-empty array;
\* three: what initThree meets while the component is mounted
ArchiveInputs ==
  UNION {{[fetch |-> "ok", group |-> TRUE, keys |-> q, invalid |-> v, three |-> t] :
            v \in {{}} \cup {{x} : x \in Range(q)}, t \in {"ok", "noRenderer"}} :
         q \in KeySeqs}
  \cup {[fetch |-> f, group |-> TRUE, keys |-> <<>>, invalid |-> {}, three |-> "ok"] :
          f \in {"http", "network"}}
  \cup {[fetch |-> "ok", group |-> FALSE, keys |-> <<>>, invalid |-> {}, three |-> "ok"]}

NoArchive == [fetch |-> "ok", group |-> TRUE, keys |-> <<>>, invalid |-> {}, three |-> "ok"]

\* setup() and the synchronous part of onMounted: fetchAndProcessH5File has
\* set loading, cleared error and awaits fetch
ArchiveStart ==
  /\ aPc = "fetch"
  /\ aError = NoError
  /\ aLoading = TRUE
  /\ aActive = TRUE
  /\ aThree = "none"
  /\ frameNames = <<>>
  /\ aNext = 0
  /\ frames = <<>>
  /\ currentFrameIndex = 0
  /\ lastFrameTime = 0
  /\ aSched = "none"
  /\ now = 0
  /\ aShown = NotShown
  /\ aTicks = 0
  /\ aAdvances = 0
  /\ aLastAdvance = Undefined
  /\ aScene = "none"
  /\ aRenderer = "none"
  /\ aDisposed = {}

ArchiveIdle ==
  /\ aVariant = "h5wasm"
  /\ aArchive = NoArchive
  /\ ArchiveStart

----------------------------------------------------------------------------
\* State after setup() and onMounted(): initThree() has built the scene, the
\* geometry and the material (vertexColors: true), connectWebSocket() has
\* set loading and cleared error.  Nothing is drawn yet: the geometry has no
\* position attribute, so drawRange is the count 0 of points drawn.

LiveInit ==
  /\ ws = "connecting"
  /\ loading = TRUE
  /\ error = NoError
  /\ isActive = TRUE
  /\ isProcessing = FALSE
  /\ maxPoints = 0
  /\ isFirstUpdate = TRUE
  /\ positions = NoArray
  /\ colors = NoArray
  /\ attrPosition = 0
  /\ attrColor = 0
  /\ vertexColors = TRUE
  /\ drawRange = 0
  /\ fitCount = 0
  /\ nextId = 1
  /\ pc = "idle"
  /\ data = NoMessage
  /\ frame = NoFrame
  /\ outcome = "none"
  /\ seen = 0
  /\ updateCalled = FALSE

Init == LiveInit /\ CodecIdle /\ ArchiveIdle

pipelineVars == <<isProcessing, maxPoints, isFirstUpdate, positions, colors,
                  attrPosition, attrColor, vertexColors, drawRange, fitCount,
                  nextId, pc, data, frame, outcome, seen, updateCalled>>

\* websocket.onopen, lines 111-114
OnOpen ==
  /\ pc = "idle"
  /\ ws = "connecting"
  /\ ws' = "open"
  /\ loading' = FALSE
  /\ UNCHANGED <<error, isActive, pipelineVars, restVars>>

\* websocket.onerror, lines 122-126
OnError ==
  /\ pc = "idle"
  /\ ws \in {"connecting", "open"}
  /\ error' = "WebSocket connection error"
  /\ loading' = FALSE
  /\ UNCHANGED <<ws, isActive, pipelineVars, restVars>>

\* websocket.onclose, lines 128-131
OnClose ==
  /\ pc = "idle"
  /\ ws # "closed"
  /\ ws' = "closed"
  /\ error' = "WebSocket connection closed"
  /\ UNCHANGED <<loading, isActive, pipelineVars, restVars>>

\* onUnmounted, lines 289-329: isActive = false, websocket.close(), dispose.
\* The message handler stays attached to the socket.
OnUnmounted ==
  /\ pc = "idle"
  /\ isActive
  /\ isActive' = FALSE
  /\ ws' = CASE ws = "open" -> "closing"
            [] ws = "connecting" -> "aborted"
            [] OTHER -> ws
  /\ UNCHANGED <<loading, error, pipelineVars, restVars>>

\* websocket.onmessage -> handleWebSocketMessage, lines 116-120 and 134-145.
\* A message event can be delivered once the socket has opened and until its
\* close event; the handler is never detached.
HandleWebSocketMessage(m) ==
  /\ pc = "idle"
  /\ ws \in {"open", "closing"}
  /\ IF isProcessing
     THEN /\ outcome' = "bounced"
          /\ UNCHANGED <<isProcessing, pc, data>>
     ELSE /\ isProcessing' = TRUE
          /\ pc' = "parse"
          /\ data' = m
          /\ outcome' = "accepted"
  /\ UNCHANGED <<ws, loading, error, isActive, maxPoints, isFirstUpdate,
                 positions, colors, attrPosition, attrColor, vertexColors,
                 drawRange, fitCount, nextId, frame, seen, updateCalled,
                 restVars>>

\* line 186, `error.value = ...` in `catch (error)`: the caught value shadows
\* the error ref.  On an Error object the assignment adds a property; on a
\* primitive it throws a TypeError (module code is strict).
CatchCompletes(thrown) == thrown = "object"

\* parsePointCloudData, lines 147-189
ParsePointCloudData ==
  /\ pc = "parse"
  /\ LET r == Parse(data)
     IN  IF r.thrown = "none"
         THEN /\ frame' = r.frame
              /\ pc' = "update"
              /\ UNCHANGED <<isProcessing, outcome>>
         ELSE /\ pc' = "idle"
              /\ UNCHANGED frame
              /\ IF CatchCompletes(r.thrown)
                 THEN isProcessing' = FALSE /\ outcome' = "parseError"
                 ELSE UNCHANGED isProcessing /\ outcome' = "uncaught"
  /\ data' = NoMessage
  /\ UNCHANGED <<ws, loading, error, isActive, maxPoints, isFirstUpdate,
                 positions, colors, attrPosition, attrColor, vertexColors,
                 drawRange, fitCount, nextId, seen, updateCalled, restVars>>

\* updatePointCloud, lines 191-248.  The numbered definitions are the state
\* after each statement; `threw` says whether the try block was left by an
\* exception (a TypeError on an undefined array or attribute, a RangeError
\* of set), in which case the statements after it did not run.
UpdatePointCloud ==
  /\ pc = "update"
  /\ LET numPoints == frame.numPoints
         hasColorsArray == ~frame.colorsNull
         \* lines 193-216
         grow == NeedsGrow(maxPoints, numPoints)
         maxPoints1 == IF grow THEN GrownCapacity(maxPoints, numPoints) ELSE maxPoints
         positions1 == IF grow THEN NewPositions(nextId, maxPoints1 * 3) ELSE positions
         attrPosition1 == IF grow THEN positions1.id ELSE attrPosition
         colors1 == IF grow /\ hasColorsArray
                    THEN NewColors(nextId + 1, maxPoints1 * 3) ELSE colors
         attrColor1 == IF grow THEN (IF hasColorsArray THEN colors1.id ELSE 0)
                       ELSE attrColor
         vertexColors1 == IF grow THEN hasColorsArray ELSE vertexColors
         nextId1 == IF grow THEN (IF hasColorsArray THEN nextId + 2 ELSE nextId + 1)
                    ELSE nextId
         \* lines 219-220
         source == Subarray(frame.positionsArray, 0, numPoints * 3)
         threw1 == positions1 = NoArray \/ ~SetFits(positions1.data, source)
         positions2 == IF threw1 THEN positions1
                       ELSE [positions1 EXCEPT !.data = Set(positions1.data, source)]
         threw2 == threw1 \/ attrPosition1 = 0
         \* lines 222-228
         threw3 == threw2 \/ (hasColorsArray /\ numPoints * 3 > 0 /\ colors1 = NoArray)
         colors2 == IF ~threw3 /\ hasColorsArray /\ colors1 # NoArray
                    THEN [colors1 EXCEPT
                            !.data = WriteColors(colors1.data, frame.colorsArray, numPoints)]
                    ELSE colors1
         threw == threw3 \/ (hasColorsArray /\ attrColor1 = 0)
     IN  /\ maxPoints' = maxPoints1
         /\ positions' = positions2
         /\ attrPosition' = attrPosition1
         /\ colors' = colors2
         /\ attrColor' = attrColor1
         /\ vertexColors' = vertexColors1
         /\ nextId' = nextId1
         \* lines 231-240
         /\ drawRange' = IF threw THEN drawRange ELSE numPoints
         /\ isFirstUpdate' = IF threw THEN isFirstUpdate ELSE FALSE
         /\ fitCount' = IF ~threw /\ isFirstUpdate THEN fitCount + 1 ELSE fitCount
         \* lines 241-243
         /\ error' = IF threw THEN "Error updating point cloud" ELSE error
         /\ outcome' = IF threw THEN "updateError" ELSE "updated"
         /\ seen' = Max(seen, numPoints)
  /\ updateCalled' = TRUE
  \* lines 244-247
  /\ isProcessing' = FALSE
  /\ pc' = "idle"
  /\ UNCHANGED <<ws, loading, isActive, data, frame, restVars>>

Next ==
  \/ OnOpen
  \/ OnError
  \/ OnClose
  \/ OnUnmounted
  \/ \E m \in Messages : HandleWebSocketMessage(m)
  \/ ParsePointCloudData
  \/ UpdatePointCloud

Spec == Init /\ [][Next]_vars

----------------------------------------------------------------------------
\* The decoders on one message each

CodecInit ==
  /\ LiveInit
  /\ ArchiveIdle
  /\ cInput \in CodecInputs
  /\ cInline = PendingInline
  /\ cWorker = PendingWorker

\* PCV.vue lines 148-183: the try block of parsePointCloudData
InlineDecode ==
  /\ cInline = PendingInline
  /\ cInline' = Parse(cInput)
  /\ UNCHANGED <<cInput, cWorker, liveVars, archiveVars>>

\* pointCloudWorker.js lines 6-50: self.onmessage
WorkerDecode ==
  /\ cWorker = PendingWorker
  /\ cWorker' = WorkerOnMessage(cInput)
  /\ UNCHANGED <<cInput, cInline, liveVars, archiveVars>>

CodecNext == InlineDecode \/ WorkerDecode

SpecCodec == CodecInit /\ [][CodecNext]_vars

----------------------------------------------------------------------------
\* The archive viewer: loading.  An action runs from one await to the next.

ArchiveInit ==
  /\ LiveInit
  /\ CodecIdle
  /\ aVariant \in {"h5wasm", "jsfive"}
  /\ aArchive \in ArchiveInputs
  /\ ArchiveStart

playbackVars == <<currentFrameIndex, lastFrameTime, aSched, now, aShown,
                  aTicks, aAdvances, aLastAdvance>>

resourceVars == <<aScene, aRenderer, aDisposed>>

\* initThree: the template ref is null once the component is unmounted
InitThree == IF aActive THEN aArchive.three ELSE "noScene"

\* finally { ...; loading.value = false } only when nothing was thrown
LoadingClearedOnSuccess(threw) == threw

\* loading.value after the finally block of processH5File
LoadingAtEnd(threw) == FALSE

\* The end of processH5File, from the test of frames.length to the finally
\* block, with the frames `loaded` and initThree having ended as `three`.
FinishLoad(loaded, three) ==
  /\ aPc' = "done"
  /\ aLoading' = LoadingAtEnd(loaded = <<>>
                              \/ (aActive /\ AnimateThrows(three)))
  /\ frames' = loaded
  /\ aThree' = three
  /\ UNCHANGED <<aNext, now>>
  /\ IF loaded = <<>>
     THEN /\ aError' = "Failed to process point cloud data"
          /\ UNCHANGED <<currentFrameIndex, lastFrameTime, aSched, aShown,
                         aTicks, aAdvances, aLastAdvance>>
     ELSE IF ~aActive
     THEN /\ aError' = NoError
          /\ UNCHANGED <<currentFrameIndex, lastFrameTime, aSched, aShown,
                         aTicks, aAdvances, aLastAdvance>>
     ELSE LET r == Animate(aVariant, IF aVariant = "h5wasm" THEN Undefined ELSE now,
                           0, lastFrameTime, Len(loaded), three)
          IN  /\ aError' = IF r.threw THEN "Failed to process point cloud data"
                           ELSE NoError
              /\ currentFrameIndex' = r.index
              /\ lastFrameTime' = r.last
              /\ aSched' = r.sched
              /\ aShown' = IF r.threw THEN aShown ELSE r.shown
              /\ aTicks' = aTicks + 1
              /\ aAdvances' = IF r.advanced THEN aAdvances + 1 ELSE aAdvances
              /\ aLastAdvance' = r.ref

\* await fetch(url) and await response.arrayBuffer() settle
FetchSettles ==
  /\ aPc = "fetch"
  /\ IF aArchive.fetch # "ok"
     THEN /\ aPc' = "done"
          /\ aError' = "Failed to load point cloud file"
          /\ aLoading' = FALSE
     ELSE /\ aPc' = "open"
          /\ UNCHANGED <<aError, aLoading>>
  /\ UNCHANGED <<aVariant, aArchive, aActive, aThree, frameNames, aNext, frames,
                 playbackVars, resourceVars, liveVars, codecVars>>

\* the first await of processH5File settles: the file is opened, the frames
\* group and its names are read, up to await nextTick()
OpenFile ==
  /\ aPc = "open"
  /\ IF ~aArchive.group
     THEN /\ aPc' = "done"
          /\ aError' = "Failed to process point cloud data"
          /\ aLoading' = LoadingAtEnd(TRUE)
          /\ UNCHANGED frameNames
     ELSE /\ aPc' = "nextTick"
          /\ frameNames' = FrameNamesOf(aVariant, aArchive.keys)
          /\ UNCHANGED <<aError, aLoading>>
  /\ UNCHANGED <<aVariant, aArchive, aActive, aThree, aNext, frames,
                 playbackVars, resourceVars, liveVars, codecVars>>

Valid(name) == name \notin aArchive.invalid

\* after await nextTick(): initThree(), the frames are cleared, and the loop
\* runs to its first await (h5wasm) or to its end (jsfive)
AfterNextTick ==
  /\ aPc = "nextTick"
  /\ IF aVariant = "h5wasm" /\ frameNames # <<>>
     THEN /\ aPc' = "frames"
          /\ aNext' = 1
          /\ aThree' = InitThree
          /\ aError' = IF InitThree = "ok" THEN aError
                       ELSE "Failed to initialize 3D viewer"
          /\ frames' = <<>>
          /\ currentFrameIndex' = 0
          /\ UNCHANGED <<aLoading, lastFrameTime, aSched, now, aShown, aTicks,
                         aAdvances, aLastAdvance>>
     ELSE FinishLoad(SelectSeq(frameNames, Valid), InitThree)
  /\ aScene' = IF InitThree \in {"ok", "noRenderer"} THEN "live" ELSE aScene
  /\ aRenderer' = IF InitThree = "ok" THEN "live" ELSE aRenderer
  /\ UNCHANGED <<aVariant, aArchive, aActive, frameNames, aDisposed, liveVars,
                 codecVars>>

\* h5wasm: await frame_dataset.to_array() settles for frame_names[aNext]
FrameLoaded ==
  /\ aPc = "frames"
  /\ LET name == frameNames[aNext]
         loaded == IF Valid(name) THEN Append(frames, name) ELSE frames
     IN  IF aNext < Len(frameNames)
         THEN /\ aNext' = aNext + 1
              /\ frames' = loaded
              /\ UNCHANGED <<aPc, aError, aLoading, aThree, playbackVars>>
         ELSE FinishLoad(loaded, aThree)
  /\ UNCHANGED <<aVariant, aArchive, aActive, frameNames, resourceVars,
                 liveVars, codecVars>>

----------------------------------------------------------------------------
\* The archive viewer: playback and teardown

\* the requestAnimationFrame callback: animate(time)
AnimationFrame ==
  /\ aSched = "raf"
  /\ aTicks < MaxTicks
  /\ \E gap \in TickGaps :
       /\ now' = now + gap
       /\ IF ~aActive
          THEN /\ aSched' = "none"
               /\ UNCHANGED <<currentFrameIndex, lastFrameTime, aShown, aTicks,
                              aAdvances, aLastAdvance>>
          ELSE LET r == Animate(aVariant, now + gap, currentFrameIndex,
                                lastFrameTime, Len(frames), aThree)
               IN  /\ currentFrameIndex' = r.index
                   /\ lastFrameTime' = r.last
                   /\ aSched' = r.sched
                   /\ aShown' = r.shown
                   /\ aTicks' = aTicks + 1
                   /\ aAdvances' = IF r.advanced THEN aAdvances + 1 ELSE aAdvances
                   /\ aLastAdvance' = r.ref
  /\ UNCHANGED <<aVariant, aArchive, aPc, aError, aLoading, aActive, aThree,
                 frameNames, aNext, frames, resourceVars, liveVars, codecVars>>

\* jsfive: the setTimeout callback of animate
TimerFires ==
  /\ aSched = "timer"
  /\ now' = now + TimerDelay
  /\ aSched' = IF aActive THEN "raf" ELSE "none"
  /\ UNCHANGED <<aVariant, aArchive, aPc, aError, aLoading, aActive, aThree,
                 frameNames, aNext, frames, currentFrameIndex, lastFrameTime,
                 aShown, aTicks, aAdvances, aLastAdvance, resourceVars,
                 liveVars, codecVars>>

\* onUnmounted: isActive = false, cancelAnimationFrame(animationId), the
\* frames, the scene and the renderer that exist are disposed
ArchiveUnmounted ==
  /\ aActive
  /\ aActive' = FALSE
  /\ aSched' = IF aSched = "raf" THEN "none" ELSE aSched
  /\ aDisposed' = aDisposed \cup Range(frames)
  /\ aScene' = IF aScene = "live" THEN "disposed" ELSE aScene
  /\ aRenderer' = IF aRenderer = "live" THEN "disposed" ELSE aRenderer
  /\ UNCHANGED <<aVariant, aArchive, aPc, aError, aLoading, aThree, frameNames,
                 aNext, frames, currentFrameIndex, lastFrameTime, now, aShown,
                 aTicks, aAdvances, aLastAdvance, liveVars, codecVars>>

ArchiveNext ==
  \/ FetchSettles
  \/ OpenFile
  \/ AfterNextTick
  \/ FrameLoaded
  \/ AnimationFrame
  \/ TimerFires
  \/ ArchiveUnmounted

SpecArchive == ArchiveInit /\ [][ArchiveNext]_vars

----------------------------------------------------------------------------
\* Vocabulary of the claims

\* a frame is inside the decompress -> decode -> ingest pipeline
InPipeline == pc \in {"parse", "update"}

\* updatePointCloud has run on `frame` and nothing has arrived since
Ingested == outcome \in {"updated", "updateError"}

bufferVars == <<maxPoints, positions, colors, attrPosition, attrColor, drawRange>>

MessageArrives == \E m \in Messages : HandleWebSocketMessage(m)

----------------------------------------------------------------------------
\* C1: a message that arrives while the processing flag is set is dropped
\* without entering the pipeline, and a message that arrives when the
\* previous accepted message's pipeline has finished (no frame is in the
\* pipeline) is accepted.
C1_DropWhileBusyAcceptAfter ==
  [][MessageArrives =>
       /\ isProcessing => (outcome' = "bounced" /\ ~InPipeline' /\ UNCHANGED bufferVars)
       /\ ~InPipeline => (outcome' = "accepted" /\ InPipeline' /\ isProcessing')]_vars

\* C2: when the handling of an accepted message has ended (no callback is
\* running), the processing flag is false, whatever the pipeline threw.
C2_FlagClearedWhenHandlingEnds == (pc = "idle") => ~isProcessing

\* C3: the processing flag is true exactly while a frame is inside the
\* pipeline (the model's single pc makes "at most one frame" structural).
C3_FlagExactlyWhileInFlight == isProcessing <=> InPipeline

\* C4: after onUnmounted no message is accepted and the geometry buffer is
\* never mutated again.
C4_NothingAfterTeardown ==
  [][~isActive => (~InPipeline' /\ UNCHANGED bufferVars)]_vars

\* C5: capacity is at least the active point count in every reachable state,
\* and no step decreases capacity.
C5_CapacityBoundsActiveAndGrows ==
  /\ [](maxPoints >= drawRange)
  /\ [][maxPoints' >= maxPoints]_vars

\* C5 witness: a frame smaller than the capacity has been ingested.
C5_Witness == outcome = "updated" /\ drawRange > 0 /\ drawRange < maxPoints

\* C6: an ingested frame with more points than the capacity leaves capacity
\* equal to its pointCount and a position storage of 3 * pointCount elements;
\* capacity always equals the largest pointCount ingested so far.
C6_GrowsToExactlyPointCount ==
  /\ [](maxPoints = seen)
  /\ [][(pc = "update" /\ frame.numPoints > maxPoints) =>
          (maxPoints' = frame.numPoints
           /\ Len(positions'.data) = 3 * frame.numPoints)]_vars

\* C6 witness: the storage has been replaced by a second, larger one.
C6_Witness ==
  outcome = "updated" /\ positions.id > 1 /\ maxPoints = frame.numPoints
  /\ Len(positions.data) = 3 * MaxPoints

\* C7: an ingested frame with pointCount <= capacity replaces neither
\* storage nor attribute binding and leaves capacity unchanged.
C7_NoReallocationWhenFits ==
  [][(pc = "update" /\ frame.numPoints <= maxPoints) =>
       (positions'.id = positions.id /\ colors'.id = colors.id
        /\ attrPosition' = attrPosition /\ attrColor' = attrColor
        /\ maxPoints' = maxPoints)]_vars

\* C7 witness: a frame with colours and fewer points than the capacity was
\* ingested into the storage allocated by an earlier frame.
C7_Witness ==
  /\ outcome = "updated" /\ frame.numPoints > 0 /\ frame.numPoints < maxPoints
  /\ ~frame.colorsNull /\ colors.id # 0 /\ attrColor = colors.id

C9_IngestNeverRaises ==
  /\ outcome # "updateError"
  /\ outcome = "updated" => drawRange = frame.numPoints

\* C9: the ingest of a frame with colours that fits the capacity raised,
\* because no colour storage was bound, and left the draw range stale.
C9_ColoredFittingFrameRaised ==
  /\ outcome = "updateError" /\ frame.numPoints > 0 /\ ~frame.colorsNull
  /\ drawRange # frame.numPoints

\* C10: a frame with pointCount = 0 is ingested without an error being
\* raised or shown, also as the very first frame, and leaves the active
\* point count 0.
C10_EmptyFrameAccepted ==
  (Ingested /\ frame.numPoints = 0 /\ frame.colorsNull) =>
    (outcome = "updated" /\ error # "Error updating point cloud" /\ drawRange = 0)

\* C11: after the ingest of a frame that carries colours, colour storage of
\* 3 * capacity elements exists, is bound as the colour attribute, vertex
\* colours are enabled and the frame's colours have been written to it,
\* whether or not the frame grew the capacity.
C11_ColorStorageForColoredFrame ==
  (Ingested /\ ~frame.colorsNull) =>
    /\ colors.id # 0
    /\ Len(colors.data) = 3 * maxPoints
    /\ attrColor = colors.id
    /\ vertexColors
    /\ \A i \in 1..(3 * frame.numPoints) :
         colors.data[i] = Normalize(frame.colorsArray[i])

\* C11: a frame with points and colours that fits the capacity was ingested
\* and there is still no colour storage.
C11_ColoredFittingFrameWithoutStorage ==
  /\ Ingested /\ ~frame.colorsNull /\ frame.numPoints > 0
  /\ frame.numPoints < maxPoints /\ colors.id = 0

\* C12: the ingest of a frame without colours, when colour storage exists,
\* keeps that storage and its content and leaves vertex colours off, on
\* growing and non-growing frames alike.
C12_ColorsDisabledStorageKept ==
  [][(pc = "update" /\ frame.colorsNull /\ colors.id # 0) =>
       (colors' = colors /\ ~vertexColors')]_vars

\* C12: a frame without colours was ingested without growth and the colour
\* attribute is still bound with vertex colours on.
C12_StaleColorsStillDrawn ==
  /\ outcome = "updated" /\ frame.colorsNull /\ frame.numPoints < maxPoints
  /\ colors.id # 0 /\ attrColor = colors.id /\ vertexColors

\* C16: a decompressor or decoder failure is caught inside the handling of
\* its message (nothing escapes the handler) and leaves the controller able
\* to accept the next message.
C16_FailureCaughtInHandler ==
  /\ outcome # "uncaught"
  /\ outcome = "parseError" => ~isProcessing

----------------------------------------------------------------------------
\* Vocabulary of the decoder claims

\* the size the header fields of the input imply
RequiredLength(n, h) == 5 + 12 * n + (IF h # 0 THEN 3 * n ELSE 0)

WellFormedInput ==
  cInput.inflate = "ok" /\ cInput.len >= RequiredLength(cInput.n, cInput.h)

TruncatedInput ==
  cInput.inflate = "ok" /\ cInput.len < RequiredLength(cInput.n, cInput.h)

\* the float the four wire bytes b encode, as its little-endian bit pattern
LittleEndian(b) == b[1] + 256 * b[2] + 65536 * b[3] + 16777216 * b[4]

\* C13: a decompressed buffer shorter than 5 + 12 * pointCount
\* (+ 3 * pointCount with colours), also one shorter than the header, makes
\* the inline decoder throw and the worker post an error; neither delivers
\* a frame.
C13_TruncatedFrameFails ==
  TruncatedInput =>
    /\ cInline # PendingInline => cInline.thrown = "object"
    /\ cWorker # PendingWorker => cWorker.error = "message"

\* C13 witness: a frame with colours that lost only its last colour byte
\* has been through both decoders.
C13_Witness ==
  /\ cInput.inflate = "ok" /\ cInput.n = MaxPoints /\ cInput.h = 1
  /\ cInput.len = RequiredLength(cInput.n, cInput.h) - 1
  /\ cInline.thrown = "object" /\ cWorker.error = "message"

\* C14: for a well-formed buffer the inline decoder yields the pointCount of
\* the header, colours exactly when byte 4 is nonzero, position element i
\* from the four bytes at 5 + 4 * i (little-endian) and colour element j
\* from the byte at 5 + 12 * pointCount + j.
C14_DecodeFollowsLayout ==
  (WellFormedInput /\ cInline # PendingInline) =>
    /\ cInline.thrown = "none"
    /\ cInline.frame.numPoints = cInput.n
    /\ cInline.frame.colorsNull = (cInput.h = 0)
    /\ Len(cInline.frame.positionsArray) = 3 * cInput.n
    /\ \A i \in 0..(3 * cInput.n - 1) :
         cInline.frame.positionsArray[i + 1]
           = LittleEndian(PositionBytes(cInput.seed, i))
    /\ cInput.h # 0 =>
         /\ Len(cInline.frame.colorsArray) = 3 * cInput.n
         /\ \A j \in 0..(3 * cInput.n - 1) :
              cInline.frame.colorsArray[j + 1] = ColorByte(cInput.seed, j)

\* C14 witness: a frame of MaxPoints points with hasColors byte 2 and a
\* trailing byte has been decoded.
C14_Witness ==
  /\ cInput.inflate = "ok" /\ cInput.n = MaxPoints /\ cInput.h = 2
  /\ cInput.len = RequiredLength(cInput.n, cInput.h) + 1
  /\ cInline.thrown = "none" /\ cInline.frame.numPoints = MaxPoints

\* C15: for a well-formed buffer each decoder delivers a frame, not an
\* error, with 3 * pointCount positions, 3 * pointCount colours when
\* hasColors is nonzero and null colours when it is 0.
C15_BothDecodersDeliverFrame ==
  WellFormedInput =>
    /\ cInline # PendingInline =>
         /\ cInline.thrown = "none"
         /\ Len(cInline.frame.positionsArray) = 3 * cInput.n
         /\ cInline.frame.colorsNull = (cInput.h = 0)
         /\ cInput.h # 0 => Len(cInline.frame.colorsArray) = 3 * cInput.n
    /\ cWorker # PendingWorker =>
         /\ cWorker.error = "none"
         /\ Len(cWorker.frame.positions) = 3 * cInput.n
         /\ cWorker.frame.colorsNull = (cInput.h = 0)
         /\ cInput.h # 0 => Len(cWorker.frame.colors) = 3 * cInput.n

\* C15: the worker delivered a frame for a well-formed buffer with colours.
C15_WorkerDeliversColoredFrame ==
  /\ WellFormedInput /\ cInput.h # 0 /\ cInput.n > 0
  /\ cWorker.error = "none" /\ Len(cWorker.frame.colors) = 3 * cInput.n

----------------------------------------------------------------------------
\* Vocabulary of the archive-viewer claims

\* the load has finished, in playback or in an error
LoadEnded == aPc = "done"

\* animate has rendered a frame
PlaybackStarted == aShown # NotShown

\* position of a name in the order the container returned
KeyPosition(name) == CHOOSE i \in DOMAIN aArchive.keys : aArchive.keys[i] = name

\* the call of animate that this step makes
AnimateCalled == aTicks' = aTicks + 1

\* the call of animate that this step makes advanced the index
Advanced == aAdvances' = aAdvances + 1

----------------------------------------------------------------------------
\* C17: in archive playback the frames played are the valid frames of the
\* container, in ascending order of the number in their names, and frames
\* with equal numbers keep the order the container returned them in.
C17_PlayedInNumericOrder ==
  PlaybackStarted =>
    /\ Range(frames) = Range(aArchive.keys) \ aArchive.invalid
    /\ \A i, j \in DOMAIN frames :
         i < j =>
           \/ FrameNumber(frames[i]) < FrameNumber(frames[j])
           \/ /\ FrameNumber(frames[i]) = FrameNumber(frames[j])
              /\ KeyPosition(frames[i]) < KeyPosition(frames[j])

\* the sorting variant plays frame10, frame2, frame1 as frame1, frame2, frame10
C17_SortingVariantPlaysInOrder ==
  /\ aVariant = "h5wasm"
  /\ PlaybackStarted
  /\ aArchive.keys = << <<"f", "1", "0">>, <<"f", "2">>, <<"f", "1">> >>
  /\ frames = << <<"f", "1">>, <<"f", "2">>, <<"f", "1", "0">> >>

----------------------------------------------------------------------------
\* C18: a call of animate advances the frame index if and only if the time
\* elapsed since the last advance (before the first advance: since the first
\* tick that carried a timestamp) is at least the frame duration, and it
\* advances by one position whatever the elapsed time; a call made before
\* that time has passed leaves the index alone.
C18_AdvanceIffFrameDurationElapsed ==
  [][AnimateCalled =>
       LET elapsedEnough == /\ aLastAdvance # Undefined
                            /\ now' - aLastAdvance >= FrameDuration
       IN  /\ Advanced <=> elapsedEnough
           /\ currentFrameIndex' =
                IF Advanced THEN (currentFrameIndex + 1) % Len(frames')
                ELSE currentFrameIndex]_vars

\* the timed variant has let ticks pass without advancing
C18_TimedVariantHoldsFrame ==
  /\ aVariant = "h5wasm"
  /\ aTicks = 4
  /\ aAdvances = 1
  /\ aShown = 1

----------------------------------------------------------------------------
\* C19: once playback has started the current frame index lies within
\* 0..frames.length-1, every advance moves it to (index + 1) mod
\* frames.length, so that the last frame is followed by index 0, and the
\* first frame rendered is the one at index 0.
C19_IndexCyclesWithinFrames ==
  /\ [](PlaybackStarted => currentFrameIndex \in 0..(Len(frames) - 1))
  /\ []((PlaybackStarted /\ aTicks = 1) => aShown = 0)
  /\ [][(AnimateCalled /\ Advanced) =>
          /\ currentFrameIndex < Len(frames') - 1
               => currentFrameIndex' = currentFrameIndex + 1
          /\ currentFrameIndex = Len(frames') - 1 => currentFrameIndex' = 0]_vars

\* playback of several frames has wrapped from the last frame to index 0
C19_Witness ==
  /\ PlaybackStarted
  /\ Len(frames) >= 2
  /\ aAdvances >= Len(frames)
  /\ currentFrameIndex = 0

----------------------------------------------------------------------------
\* the load met one of the archive-mode failures: fetch failed, no 'frames'
\* group, no valid frame, or initThree failed
LoadFailed ==
  \/ aArchive.fetch # "ok"
  \/ ~aArchive.group
  \/ Range(aArchive.keys) \subseteq aArchive.invalid
  \/ aThree \in {"noScene", "noRenderer"}

----------------------------------------------------------------------------
\* Vocabulary of the later live-stream claims

\* the geometry buffer shows the decoded frame f: it is the active range and
\* its positions and, if it has any, its colours are in the storage
Reflects(f) ==
  /\ drawRange = f.numPoints
  /\ f.numPoints > 0 =>
       /\ positions # NoArray
       /\ Len(positions.data) >= 3 * f.numPoints
       /\ \A i \in 1..(3 * f.numPoints) : positions.data[i] = f.positionsArray[i]
  /\ (f.numPoints > 0 /\ ~f.colorsNull) =>
       /\ colors # NoArray
       /\ \A i \in 1..(3 * f.numPoints) :
            colors.data[i] = Normalize(f.colorsArray[i])

\* C21: a message that is dropped changes neither the message being handled,
\* nor the decoded frame, nor the buffer (there is no queue, it is never
\* processed later); a frame enters the ingest only as the decoding of the
\* message accepted last; and whenever no ingest is pending the buffer
\* reflects the most recently accepted well-formed frame.
C21_BufferReflectsLastAcceptedFrame ==
  /\ [][(MessageArrives /\ outcome' = "bounced") =>
          UNCHANGED <<data, frame, bufferVars>>]_vars
  /\ [][(pc # "update" /\ pc' = "update") => frame' = Parse(data).frame]_vars
  /\ [](pc # "update" => Reflects(frame))

\* a second, smaller frame with colours was accepted after a first one and
\* the buffer reflects it
C21_LaterFrameReflected ==
  /\ pc = "idle" /\ outcome = "updated"
  /\ frame.numPoints > 0 /\ frame.numPoints < maxPoints /\ ~frame.colorsNull
  /\ Reflects(frame)

----------------------------------------------------------------------------
\* C22: the ingest of a frame with fewer points than the capacity leaves
\* every element of the position storage at index >= 3 * pointCount (0-based)
\* with the value it had before the ingest, in the same storage.
C22_TailOfStorageKept ==
  [][(pc = "update" /\ frame.numPoints < maxPoints) =>
       /\ Len(positions'.data) = Len(positions.data)
       /\ \A i \in (3 * frame.numPoints + 1)..Len(positions.data) :
            positions'.data[i] = positions.data[i]]_vars

\* C22 witness: a frame of one point was ingested into a larger storage
\* whose remaining elements all hold positions of an earlier frame.
C22_Witness ==
  /\ outcome = "updated" /\ frame.numPoints = 1 /\ drawRange = 1
  /\ Len(positions.data) > 3
  /\ \A i \in 4..Len(positions.data) : positions.data[i] # 0
  /\ \E i \in 4..Len(positions.data) : positions.data[i] # frame.positionsArray[1]

----------------------------------------------------------------------------
\* C23: fitCameraToObject is called at most once in a session, and the call
\* is made by the first call of updatePointCloud (the ingest of the first
\* frame that was accepted and decoded), never by a later one.
C23_CameraFitOnFirstFrameOnly ==
  /\ [](fitCount <= 1)
  /\ [][fitCount' # fitCount => (pc = "update" /\ ~updateCalled)]_vars

\* the camera was fitted once and a later, smaller frame was ingested
\* without another fit
C23_LaterFrameDoesNotFit ==
  /\ fitCount = 1 /\ ~isFirstUpdate
  /\ outcome = "updated" /\ frame.numPoints < maxPoints

----------------------------------------------------------------------------
\* the wire byte c delivered as it is: c / 1, in the representation of
\* Normalize
Unnormalized(c) == [num |-> c, den |-> 1]

\* C24: for a well-formed buffer with colours each decoder delivers colour
\* element j as the wire byte at 5 + 12 * pointCount + j, a value in 0..255
\* that has not been divided by 255.
C24_CodecDeliversWireBytes ==
  (WellFormedInput /\ cInput.h # 0) =>
    /\ cInline # PendingInline =>
         \A j \in 0..(3 * cInput.n - 1) :
           /\ cInline.frame.colorsArray[j + 1] = ColorByte(cInput.seed, j)
           /\ cInline.frame.colorsArray[j + 1] \in 0..255
    /\ (cWorker # PendingWorker /\ cWorker.error = "none") =>
         \A j \in 0..(3 * cInput.n - 1) :
           cWorker.frame.colors[j + 1] = Unnormalized(ColorByte(cInput.seed, j))

\* the inline decoder delivered colours of a well-formed frame, and they are
\* the bytes of the wire
C24_InlineDeliversWireBytes ==
  /\ WellFormedInput /\ cInput.h # 0 /\ cInput.n = MaxPoints
  /\ cInline.thrown = "none"
  /\ cInline.frame.colorsArray[1] = ColorByte(cInput.seed, 0)
  /\ cInline.frame.colorsArray[1] > 1

----------------------------------------------------------------------------
\* a message whose decompression fails or whose buffer is cut short
FailingMessage(m) ==
  m.inflate \in {"object", "primitive"} \/ m.raw \in TruncatedRaw

\* C25: no step of the handling of a message whose decompression or decoding
\* fails (its acceptance, its parse) changes capacity, position or colour
\* storage, attribute bindings, vertex colours or the active point count,
\* and such a message never reaches the ingest.
C25_FailedMessageLeavesBuffer ==
  [][(FailingMessage(data) \/ FailingMessage(data')) =>
       /\ UNCHANGED <<bufferVars, vertexColors>>
       /\ pc' # "update"]_vars

\* a failing message was handled while the buffer held a frame with colours
C25_Witness ==
  /\ outcome = "parseError" /\ pc = "idle"
  /\ drawRange > 0 /\ colors.id # 0 /\ attrColor = colors.id

----------------------------------------------------------------------------
\* nothing the load created is left undisposed
AllDisposed ==
  /\ aScene # "live"
  /\ aRenderer # "live"
  /\ Range(frames) \subseteq aDisposed

\* C26: when the load of a viewer that was torn down meanwhile finishes, no
\* scene, renderer or frame geometry is left undisposed, then or later, and
\* animate does not run once the viewer is torn down.
C26_TeardownDuringLoadLeavesNothing ==
  /\ [][(~aActive /\ ~LoadEnded /\ LoadEnded') => AllDisposed']_vars
  /\ [][(~aActive /\ LoadEnded /\ AllDisposed) => AllDisposed']_vars
  /\ [][~aActive => aTicks' = aTicks]_vars

\* a viewer was torn down while its frames were being read: the renderer it
\* had created is disposed, the load has finished with frames and animate
\* never ran
C26_TornDownWhileReadingFrames ==
  /\ LoadEnded /\ ~aActive
  /\ frames # <<>> /\ aTicks = 0
  /\ aRenderer = "disposed" /\ aScene = "disposed"

----------------------------------------------------------------------------
\* C27: the loading indicator is true from the start of the fetch for as
\* long as fetchAndProcessH5File has not finished, and false once it has,
\* whether it ended in a fetch failure, a container failure, an archive
\* without valid frames, a failed renderer or the start of playback.
C27_LoadingExactlyUntilLoadEnds == LoadEnded <=> ~aLoading

\* a load over an archive whose only frame is invalid has ended, with the
\* error shown and the loading indicator off
C27_Witness ==
  /\ LoadEnded /\ ~aLoading
  /\ aArchive.keys # <<>> /\ frames = <<>>
  /\ aThree = "ok" /\ aError = "Failed to process point cloud data"

====
